---- MODULE Spec2Model ----
(***************************************************************************)
(* Model of WxO/Tools/format_address/format_address_tool.py: the tool      *)
(* format_address(street, city, state, zip_code, country) -> str.          *)
(*                                                                         *)
(* A Python str is modelled as a sequence of one-character strings, so     *)
(* that str.strip() and str.join() are computed character by character.   *)
(* Every activation of the function owns a frame holding its parameters    *)
(* and its locals (parts, line2); the statements of the body are frame     *)
(* transformers, composed into the whole call by format_address.           *)
(***************************************************************************)
EXTENDS Naturals, Sequences, FiniteSets

(* ------------------------------ bounds -------------------------------- *)

\* longest run of whitespace put before and after a field's text
MaxPad == 1

\* number of fields of one call whose text goes beyond "" / a single letter
MaxRich == 1

\* number of callers of the tool
NumCallers == 2

Callers == 1..NumCallers

(* ------------------------------ text ---------------------------------- *)

\* characters str.strip() removes: the whitespace characters that can be
\* written here (Python also strips \v and the Unicode spaces)
Whitespace == {" ", "\t", "\n", "\r", "\f"}

NL == <<"\n">>

CommaSp == <<",", " ">>

NoAddress ==
    <<"N","o"," ","a","d","d","r","e","s","s"," ",
      "p","r","o","v","i","d","e","d",".">>

FieldSet == {"street", "city", "state", "zip_code", "country"}

\* the letter that stands for the content of a field in the inputs
Letter(f) ==
    CASE f = "street"   -> "s"
      [] f = "city"     -> "c"
      [] f = "state"    -> "t"
      [] f = "zip_code" -> "z"
      [] f = "country"  -> "k"

Chars == {Letter(f) : f \in FieldSet} \cup Whitespace \cup {","}
             \cup {NoAddress[i] : i \in 1..Len(NoAddress)}

RECURSIVE lstrip(_)
lstrip(s) ==
    IF s = <<>> THEN s
    ELSE IF Head(s) \in Whitespace THEN lstrip(Tail(s)) ELSE s

RECURSIVE rstrip(_)
rstrip(s) ==
    IF s = <<>> THEN s
    ELSE IF s[Len(s)] \in Whitespace THEN rstrip(SubSeq(s, 1, Len(s) - 1))
    ELSE s

\* str.strip() trimmed on the left only
stripLeftOnly(s) == [raised |-> FALSE, text |-> lstrip(s)]

\* str.strip() that fails when nothing is left of the text
stripRaisesOnBlank(s) ==
    [raised |-> rstrip(lstrip(s)) = <<>>, text |-> rstrip(lstrip(s))]

\* s.strip(): the outcome of the method call, an exception or a str
strip(s) == [raised |-> FALSE, text |-> rstrip(lstrip(s))]

\* sep.join(xs)
RECURSIVE join(_, _)
join(sep, xs) ==
    IF xs = <<>> THEN <<>>
    ELSE IF Len(xs) = 1 THEN xs[1]
    ELSE xs[1] \o sep \o join(sep, Tail(xs))

\* truth value of a str that is tested after trimming
TruthyAfterTrim(s) == rstrip(lstrip(s)) # <<>>

\* truth value of a str in a condition: `if street:`
Truthy(s) == s # <<>>

(* ---------------------------- arguments ------------------------------- *)

Absent == [given |-> FALSE, text |-> <<>>]

Given(t) == [given |-> TRUE, text |-> t]

\* default value of a parameter the caller leaves out
Default(f) == <<>>

\* binding of the arguments of a call to the parameters
Bind(a) == [f \in FieldSet |-> IF a[f].given THEN a[f].text ELSE Default(f)]

AllAbsent == [f \in FieldSet |-> Absent]

(* ------------------------------ frames -------------------------------- *)

IdleFrame ==
    [pc |-> "idle", p |-> Bind(AllAbsent), parts |-> <<>>, line2 |-> <<>>,
     raised |-> FALSE, ret |-> <<>>]

Raise(fr) == [fr EXCEPT !.pc = "raised", !.raised = TRUE]

\* an activation whose list `parts` is the one of the previous activation
EnterKeepParts(a, prev) ==
    [pc |-> "street", p |-> Bind(a), parts |-> prev.parts, line2 |-> <<>>,
     raised |-> FALSE, ret |-> <<>>]

\* entry of the function: parameters bound, parts = []
Enter(a, prev) ==
    [pc |-> "street", p |-> Bind(a), parts |-> <<>>, line2 |-> <<>>,
     raised |-> FALSE, ret |-> <<>>]

\* `if v: xs.append(v.strip())` on acc = [raised, items]
AppendIf(acc, v) ==
    IF acc.raised \/ ~Truthy(v) THEN acc
    ELSE LET r == strip(v) IN
         IF r.raised THEN [acc EXCEPT !.raised = TRUE]
         ELSE [acc EXCEPT !.items = Append(@, r.text)]

\* if street: parts.append(street.strip())
StepStreet(fr) ==
    LET acc == AppendIf([raised |-> FALSE, items |-> fr.parts], fr.p["street"])
    IN  IF acc.raised THEN Raise(fr)
        ELSE [fr EXCEPT !.parts = acc.items, !.pc = "line2"]

Line2Of(fr) ==
    AppendIf(AppendIf(AppendIf([raised |-> FALSE, items |-> <<>>],
                               fr.p["city"]), fr.p["state"]), fr.p["zip_code"])

\* line 2 whose components are appended to parts one by one
StepLine2Extend(fr) ==
    LET acc == Line2Of(fr)
    IN  IF acc.raised THEN Raise(fr)
        ELSE [fr EXCEPT !.line2 = acc.items, !.parts = @ \o acc.items,
                        !.pc = "country"]

\* line 2 appended to parts whether or not it has a component
StepLine2Always(fr) ==
    LET acc == Line2Of(fr)
    IN  IF acc.raised THEN Raise(fr)
        ELSE [fr EXCEPT !.line2 = acc.items,
                        !.parts = Append(@, join(CommaSp, acc.items)),
                        !.pc = "country"]

\* line2 = [] ... if line2: parts.append(", ".join(line2))
StepLine2(fr) ==
    LET acc == Line2Of(fr)
    IN  IF acc.raised THEN Raise(fr)
        ELSE [fr EXCEPT !.line2 = acc.items,
                        !.parts = IF acc.items # <<>>
                                  THEN Append(@, join(CommaSp, acc.items))
                                  ELSE @,
                        !.pc = "country"]

\* if country: parts.append(country.strip())
StepCountry(fr) ==
    LET acc == AppendIf([raised |-> FALSE, items |-> fr.parts], fr.p["country"])
    IN  IF acc.raised THEN Raise(fr)
        ELSE [fr EXCEPT !.parts = acc.items, !.pc = "return"]

\* return statement without the placeholder
StepReturnJoinOnly(fr) ==
    [fr EXCEPT !.ret = join(NL, fr.parts), !.pc = "done"]

\* return "\n".join(parts) if parts else "No address provided."
StepReturn(fr) ==
    [fr EXCEPT !.ret = IF fr.parts # <<>> THEN join(NL, fr.parts)
                       ELSE NoAddress,
               !.pc = "done"]

\* the next statement of an activation
Exec(fr) ==
    CASE fr.pc = "street"  -> StepStreet(fr)
      [] fr.pc = "line2"   -> StepLine2(fr)
      [] fr.pc = "country" -> StepCountry(fr)
      [] fr.pc = "return"  -> StepReturn(fr)
      [] OTHER             -> fr

\* one whole call with arguments a
format_address(a) == Exec(Exec(Exec(Exec(Enter(a, IdleFrame)))))

(* ------------------------------ inputs -------------------------------- *)

\* runs of one whitespace character, up to MaxPad long
Pads ==
    {<<>>} \cup {[i \in 1..k |-> w] : w \in {" ", "\n"}, k \in 1..MaxPad}

\* texts that get padded: nothing, the letter of the field
Cores(f) == {<<>>, <<Letter(f)>>}

Plain(f) == {Absent, Given(<<>>), Given(<<Letter(f)>>)}

\* whitespace-only and padded texts, a text of two lines, and (for the
\* street) the text of the placeholder
Rich(f) ==
    ({Given(l \o c \o r) : l \in Pads, c \in Cores(f), r \in Pads}
       \cup {Given(<<Letter(f), "\n", Letter(f)>>)}
       \cup (IF f = "street" THEN {Given(NoAddress)} ELSE {}))
    \ Plain(f)

Dom(R, f) == IF f \in R THEN Rich(f) ELSE Plain(f)

\* the sets of fields that carry rich text in one call
RichSets == {Q \in SUBSET FieldSet : Cardinality(Q) <= MaxRich}

MkArgs(v1, v2, v3, v4, v5) ==
    [street |-> v1, city |-> v2, state |-> v3, zip_code |-> v4, country |-> v5]

\* argument lists of the interleaved callers: the documented example shapes
\* (full address, nothing, street and country, city and zip code) and a
\* call with a padded street
ConcArgs ==
    { MkArgs(Given(<<"s">>), Given(<<"c">>), Given(<<"t">>), Given(<<"z">>), Given(<<"k">>)),
      MkArgs(Given(<<>>), Given(<<>>), Given(<<>>), Given(<<>>), Given(<<>>)),
      MkArgs(Given(<<"s">>), Absent, Absent, Absent, Given(<<"k">>)),
      MkArgs(Absent, Given(<<"c">>), Absent, Given(<<"z">>), Absent),
      MkArgs(Given(<<" ", "s", " ">>), Absent, Given(<<" ">>), Absent, Absent) }

(* ------------------------------- state -------------------------------- *)

VARIABLES
    args,    \* args[c]: the arguments of caller c's current call
    frame    \* frame[c]: the activation of caller c's current call

vars == <<args, frame>>

\* a caller has supplied the arguments of one call; the fields in R carry
\* rich text, the others are absent, empty or a single letter
Init ==
    \E R \in RichSets :
      \E v1 \in Dom(R, "street"), v2 \in Dom(R, "city"), v3 \in Dom(R, "state"),
         v4 \in Dom(R, "zip_code"), v5 \in Dom(R, "country") :
        /\ args = [c \in Callers |->
                     IF c = 1 THEN MkArgs(v1, v2, v3, v4, v5) ELSE AllAbsent]
        /\ frame = [c \in Callers |->
                      IF c = 1 THEN [IdleFrame EXCEPT !.pc = "called"]
                      ELSE IdleFrame]

\* the whole call, from entry to return
Call(c) ==
    /\ frame[c].pc = "called"
    /\ frame' = [frame EXCEPT ![c] = format_address(args[c])]
    /\ UNCHANGED args

Next == \E c \in Callers : Call(c)

Spec == Init /\ [][Next]_vars

(* ---------------- interleaved calls, statement by statement ------------ *)

InitConc ==
    /\ args = [c \in Callers |-> AllAbsent]
    /\ frame = [c \in Callers |-> IdleFrame]

\* caller c starts a call with arguments a
Invoke(c, a) ==
    /\ frame[c].pc \in {"idle", "done"}
    /\ args' = [args EXCEPT ![c] = a]
    /\ frame' = [frame EXCEPT ![c] = Enter(a, frame[c])]

DoStreet(c) ==
    /\ frame[c].pc = "street"
    /\ frame' = [frame EXCEPT ![c] = StepStreet(frame[c])]
    /\ UNCHANGED args

DoLine2(c) ==
    /\ frame[c].pc = "line2"
    /\ frame' = [frame EXCEPT ![c] = StepLine2(frame[c])]
    /\ UNCHANGED args

DoCountry(c) ==
    /\ frame[c].pc = "country"
    /\ frame' = [frame EXCEPT ![c] = StepCountry(frame[c])]
    /\ UNCHANGED args

DoReturn(c) ==
    /\ frame[c].pc = "return"
    /\ frame' = [frame EXCEPT ![c] = StepReturn(frame[c])]
    /\ UNCHANGED args

NextConc ==
    \E c \in Callers :
        \/ \E a \in ConcArgs : Invoke(c, a)
        \/ DoStreet(c)
        \/ DoLine2(c)
        \/ DoCountry(c)
        \/ DoReturn(c)

SpecConc == InitConc /\ [][NextConc]_vars

(* --------------------------- observations ----------------------------- *)

Done(c) == frame[c].pc = "done"

\* number of segments of s when split on the newline character
SegCount(s) == 1 + Cardinality({i \in 1..Len(s) : s[i] = "\n"})

\* s has a newline between two characters that are not whitespace
InnerNewline(s) ==
    \E i, j, k \in 1..Len(s) :
        /\ i < j /\ j < k
        /\ s[i] \notin Whitespace /\ s[j] = "\n" /\ s[k] \notin Whitespace

\* t is v without its leading and trailing whitespace
IsTrimOf(t, v) ==
    /\ \E i, j \in 0..Len(v) :
          /\ i + j + Len(t) = Len(v)
          /\ \A n \in 1..Len(v) :
                IF n <= i \/ n > i + Len(t) THEN v[n] \in Whitespace
                ELSE v[n] = t[n - i]
    /\ t # <<>> => (t[1] \notin Whitespace /\ t[Len(t)] \notin Whitespace)

NonEmpty(s) == s # <<>>

\* s begins with the text t
StartsWith(s, t) == Len(s) >= Len(t) /\ SubSeq(s, 1, Len(t)) = t

\* s ends with the text t
EndsWith(s, t) == Len(s) >= Len(t) /\ SubSeq(s, Len(s) - Len(t) + 1, Len(s)) = t

\* the parameters of line B, in the order city, state, zip_code
BFields(fr) == <<fr.p["city"], fr.p["state"], fr.p["zip_code"]>>

\* the groups of fields with a non-empty member, in the order A, B, C
GroupsPresent(fr) ==
    (IF fr.p["street"] # <<>> THEN <<"A">> ELSE <<>>)
    \o (IF \E i \in 1..3 : BFields(fr)[i] # <<>> THEN <<"B">> ELSE <<>>)
    \o (IF fr.p["country"] # <<>> THEN <<"C">> ELSE <<>>)

(* ------------------------------ claims -------------------------------- *)

\* C1: a call in which every field is the empty string or absent returns
\* exactly "No address provided.".
C1_AllEmptyPlaceholder ==
    \A c \in Callers :
        (Done(c) /\ \A f \in FieldSet : ~args[c][f].given \/ args[c][f].text = <<>>)
            => frame[c].ret = NoAddress

C1_Witness ==
    \E c \in Callers :
        /\ Done(c)
        /\ args[c]["street"] = Given(<<>>)
        /\ \A f \in FieldSet \ {"street"} : args[c][f] = Absent
        /\ frame[c].ret = NoAddress

\* C2 (as stated): for all inputs, also those with newlines inside a field,
\* the result splits on the newline character into no more than 3 segments.
C2_AtMostThreeSegments ==
    \A c \in Callers : Done(c) => SegCount(frame[c].ret) <= 3

\* C2 (amended): the result is the join of no more than 3 produced lines, and
\* it splits into no more than 3 segments when no field has a newline between
\* two of its non-whitespace characters.
C2_AtMostThreeLines ==
    \A c \in Callers :
        Done(c) =>
            /\ Len(frame[c].parts) <= 3
            /\ (\A f \in FieldSet : ~InnerNewline(frame[c].p[f]))
                   => SegCount(frame[c].ret) <= 3

C2_Witness ==
    \E c \in Callers :
        /\ Done(c)
        /\ GroupsPresent(frame[c]) = <<"A", "B", "C">>
        /\ \A i \in 1..3 : BFields(frame[c])[i] # <<>>
        /\ \E f \in FieldSet : \E i \in 1..Len(frame[c].p[f]) : frame[c].p[f][i] = "\n"
        /\ SegCount(frame[c].ret) = 3

\* C3: line B is the ", "-join, in the order city, state, zip_code, of exactly
\* those of the three values that are non-empty after trimming; it is emitted
\* only if one of them is non-empty and it has no empty component (it neither
\* starts nor ends with ", ").
C3_LineBNonEmptyComponents ==
    \A c \in Callers :
        Done(c) =>
            LET trimmed == [i \in 1..3 |-> rstrip(lstrip(BFields(frame[c])[i]))]
                comps   == SelectSeq(trimmed, NonEmpty)
                lineB   == join(CommaSp, frame[c].line2)
            IN  /\ frame[c].line2 = comps
                /\ \A i \in 1..Len(frame[c].line2) : frame[c].line2[i] # <<>>
                /\ ~StartsWith(lineB, CommaSp)
                /\ ~EndsWith(lineB, CommaSp)

\* C4: for every field and every value v of it, a call with v and a call with
\* trim(v), the other fields equal, return the same string.
C4_TrimIdempotent ==
    \A c \in Callers :
        Done(c) =>
            \A f \in FieldSet :
                frame[c].ret =
                    format_address(
                        [args[c] EXCEPT ![f] = Given(rstrip(lstrip(frame[c].p[f])))]).ret

\* C5: when a line is produced, the result is the produced lines joined by one
\* newline in the order A (street), B (city/state/zip_code), C (country); an
\* omitted line leaves no blank line, so there are as many lines as groups
\* with a non-empty field.
C5_LinesInOrder ==
    \A c \in Callers :
        (Done(c) /\ frame[c].parts # <<>>) =>
            LET fr == frame[c]
                g  == GroupsPresent(fr)
                lineOf(x) ==
                    CASE x = "A" -> rstrip(lstrip(fr.p["street"]))
                      [] x = "B" -> join(CommaSp,
                                        [i \in 1..Len(SelectSeq(BFields(fr), NonEmpty)) |->
                                            rstrip(lstrip(SelectSeq(BFields(fr), NonEmpty)[i]))])
                      [] x = "C" -> rstrip(lstrip(fr.p["country"]))
            IN  /\ Len(fr.parts) = Len(g)
                /\ fr.ret = join(NL, [i \in 1..Len(g) |-> lineOf(g[i])])
                /\ (\A f \in FieldSet : ~InnerNewline(fr.p[f]))
                       => SegCount(fr.ret) = Len(g)

C5_Witness ==
    \E c \in Callers :
        /\ Done(c)
        /\ GroupsPresent(frame[c]) = <<"A", "C">>
        /\ frame[c].ret = <<"s", "\n", "k">>

\* C6: every emitted field value is in trimmed form: the street line is
\* trim(street), the country line is trim(country), and each component of
\* line B is the trim of its field.
C6_EmittedTrimmed ==
    \A c \in Callers :
        Done(c) =>
            LET fr == frame[c]
                bs == SelectSeq(BFields(fr), NonEmpty)
            IN  /\ fr.p["street"] # <<>> => IsTrimOf(fr.parts[1], fr.p["street"])
                /\ fr.p["country"] # <<>> =>
                       IsTrimOf(fr.parts[Len(fr.parts)], fr.p["country"])
                /\ Len(fr.line2) = Len(bs)
                /\ \A i \in 1..Len(bs) : IsTrimOf(fr.line2[i], bs[i])

C6_Witness ==
    \E c \in Callers :
        /\ Done(c)
        /\ frame[c].p["street"] = <<" ", "s", " ">>
        /\ frame[c].parts[1] = <<"s">>

\* C7: a call returns a text and never ends with an exception, whichever
\* fields are given and whatever their text.
C7_Total ==
    \A c \in Callers :
        /\ frame[c].pc # "raised"
        /\ ~frame[c].raised
        /\ Done(c) => frame[c].ret \in Seq(Chars)

C7_Witness ==
    \E c \in Callers :
        /\ Done(c)
        /\ ~args[c]["street"].given
        /\ args[c]["city"].given /\ args[c]["city"].text # <<>>
        /\ \E f \in FieldSet : args[c][f].given /\ args[c][f].text # <<>>
                                  /\ rstrip(lstrip(args[c][f].text)) = <<>>
        /\ frame[c].ret \in Seq(Chars)

\* C8: the result of a call depends only on the arguments of that call: two
\* calls with equal arguments return equal strings, whatever calls came
\* before or run in between.
C8_Deterministic ==
    /\ \A c, d \in Callers :
          (Done(c) /\ Done(d) /\ args[c] = args[d]) => frame[c].ret = frame[d].ret
    /\ \A c \in Callers :
          Done(c) => frame[c].ret = format_address(args[c]).ret

C8_Witness ==
    \E c, d \in Callers :
        /\ c # d
        /\ Done(c) /\ Done(d)
        /\ args[c] = args[d]
        /\ frame[c].parts # <<>>
        /\ frame[c].ret = frame[d].ret

\* C9: the returned string is never empty and never contains an empty line.
C9_NoEmptyLine ==
    \A c \in Callers :
        Done(c) =>
            LET r == frame[c].ret
            IN  /\ r # <<>>
                /\ r[1] # "\n"
                /\ r[Len(r)] # "\n"
                /\ \A i \in 1..(Len(r) - 1) : ~(r[i] = "\n" /\ r[i + 1] = "\n")

====
